---------------------------- MODULE Spec2Model ----------------------------
(***************************************************************************)
(* A model of platypus/core.py: dominance relations, the non-dominated     *)
(* archive, non-dominated sorting, crowding distance, truncation and the   *)
(* hypervolume fitness evaluator.                                          *)
(*                                                                         *)
(* Real numbers are modelled exactly: objective values lie on an integer   *)
(* grid, and every quotient the code forms is kept as a reduced fraction   *)
(* <<n, d>> with d > 0.  <<1, 0>> is POSITIVE_INFINITY and <<-1, 0>> its    *)
(* negation.  Rounding of floating-point arithmetic is not modelled.       *)
(***************************************************************************)
EXTENDS Integers, Sequences, FiniteSets

VARIABLES
    problem,        \* Problem: [nobjs, nconstrs, directions]
    dominance,      \* the Dominance object in use: [kind, epsilons]
    solutions,      \* the list of Solution objects handed to an operation
    flags,          \* results of Dominance.compare, by <<i, j>> (indices of solutions)
    contents,       \* Archive._contents
    added,          \* record of the last Archive.add call: [before, solution, result]
    nadds,          \* number of Archive.add calls made so far
    op,             \* the last operation applied to `solutions`
    rank,           \* solution.rank, by solution id (where assigned)
    crowding_distance,  \* solution.crowding_distance, by solution id (where assigned)
    truncated,      \* the last nondominated_truncate call: [size, result]
    rho,            \* HypervolumeFitnessEvaluator.rho
    fitcomp,        \* FitnessEvaluator.fitcomp (the rows and columns of the solutions)
    max_fitness,    \* FitnessEvaluator.max_fitness
    fitness,        \* solution.fitness, by solution id (where assigned)
    error,          \* the exception FitnessEvaluator.evaluate raised, or "none"
    nremoved,       \* number of FitnessEvaluator.remove calls since evaluate
    pruned,         \* the last nondominated_prune call: [size, error, result, removals]
    constraint,     \* the text a Constraint is built from
    function,       \* Constraint.function: [parsed, op, y]
    violation       \* the last Constraint.__call__: [called, value, result]

archiveVars == <<contents, added, nadds>>
sortVars == <<rank, crowding_distance, truncated, pruned>>
fitnessVars == <<rho, fitcomp, max_fitness, fitness, error, nremoved>>
constraintVars == <<constraint, function, violation>>
vars == <<problem, dominance, solutions, flags, op, archiveVars, sortVars, fitnessVars,
          constraintVars>>

\* ------------------------------------------------------------------ bounds
\* number of Archive.add calls in a run
MaxAdds == 3
\* largest population handed to the sorting, truncation and fitness functions
MaxPop == 3
\* number of FitnessEvaluator.remove calls after an evaluate
MaxRemoves == 2

\* ------------------------------------------------------------ input values
\* nobjs of the problems modelled
NObjs == 2
\* the values an objective takes (three values: a front of three distinct points)
ObjectiveValues == 0..2
\* the values a constraint violation takes (feasible, and two infeasible levels)
Violations == 0..2

\* ------------------------------------------------------ program constants
MINIMIZE == -1
MAXIMIZE == 1


\* the value of `added` before any Archive.add call
NoAdd == [called |-> FALSE, before |-> <<>>, result |-> FALSE]
\* the value of `truncated` before any nondominated_truncate call
NoTruncate == [size |-> 0, result |-> <<>>]
\* the value of `pruned` before any nondominated_prune call
NoPrune == [size |-> 0, error |-> "none", result |-> <<>>, removals |-> <<>>]
\* the constraint's variables where no Constraint is in use
NoConstraint ==
    /\ constraint = <<>>
    /\ function = [parsed |-> FALSE]
    /\ violation = [called |-> FALSE]
\* the fitness evaluator's variables where no evaluator is in use
NoEvaluator ==
    /\ rho = <<0, 1>>
    /\ fitcomp = <<>>
    /\ max_fitness = <<0, 1>>
    /\ fitness = <<>>
    /\ error = "none"
    /\ nremoved = 0

\* ------------------------------------------------------------- arithmetic
Abs(x) == IF x < 0 THEN -x ELSE x

RECURSIVE Gcd(_, _)
Gcd(a, b) == IF b = 0 THEN a ELSE Gcd(b, a % b)

Min(x, y) == IF x < y THEN x ELSE y

\* The reduced fraction n/d (d > 0).
Frac(n, d) == LET g == Gcd(Abs(n), d) IN <<n \div g, d \div g>>

\* POSITIVE_INFINITY = float("inf")
POSITIVE_INFINITY == <<1, 0>>

Zero == <<0, 1>>

IsFinite(a) == a[2] # 0

FNeg(a) == <<-a[1], a[2]>>

\* a + b, where at most one sign of infinity occurs
FAdd(a, b) ==
    IF ~IsFinite(a) THEN a
    ELSE IF ~IsFinite(b) THEN b
    ELSE Frac(a[1] * b[2] + b[1] * a[2], a[2] * b[2])

\* a < b
FLess(a, b) ==
    IF IsFinite(a) /\ IsFinite(b) THEN a[1] * b[2] < b[1] * a[2]
    ELSE (IF IsFinite(a) THEN 0 ELSE a[1]) < (IF IsFinite(b) THEN 0 ELSE b[1])

\* cmp(x, y) of Python 2 on integers and on floats
Cmp(x, y) == IF x < y THEN -1 ELSE IF x > y THEN 1 ELSE 0
FCmp(a, b) == IF FLess(a, b) THEN -1 ELSE IF FLess(b, a) THEN 1 ELSE 0

\* x < EPSILON for a difference x of two grid values: the grid step is 1 and
\* EPSILON = sys.float_info.epsilon lies strictly between 0 and 1
BelowEpsilon(x) == x <= 0

\* f overridden by g
Merge(f, g) ==
    [x \in DOMAIN f \cup DOMAIN g |-> IF x \in DOMAIN g THEN g[x] ELSE f[x]]

\* the values of a sequence
Range(seq) == { seq[k] : k \in 1..Len(seq) }

\* seq[:n] of Python, n >= 0
Take(seq, n) == SubSeq(seq, 1, Min(n, Len(seq)))

\* sorted(): a stable sort of seq; less is the set of pairs <<x, y>> with x < y
RECURSIVE InsertSorted(_, _, _, _)
InsertSorted(sorted, x, less, k) ==
    IF k > Len(sorted) THEN Append(sorted, x)
    ELSE IF <<x, sorted[k]>> \in less
    THEN SubSeq(sorted, 1, k - 1) \o <<x>> \o SubSeq(sorted, k, Len(sorted))
    ELSE InsertSorted(sorted, x, less, k + 1)

RECURSIVE StableSortFrom(_, _, _, _)
StableSortFrom(seq, less, k, sorted) ==
    IF k > Len(seq) THEN sorted
    ELSE StableSortFrom(seq, less, k + 1, InsertSorted(sorted, seq[k], less, 1))

Sorted(seq, less) == StableSortFrom(seq, less, 1, <<>>)

\* a - b, a * b and a / b (b # 0) of finite numbers
FSub(a, b) == FAdd(a, FNeg(b))
FMul(a, b) == Frac(a[1] * b[1], a[2] * b[2])
FDiv(a, b) == IF b[1] < 0 THEN Frac(-(a[1] * b[2]), a[2] * (-b[1]))
              ELSE Frac(a[1] * b[2], a[2] * b[1])

\* abs(a) and max(a, b) of Python
FAbs(a) == <<Abs(a[1]), a[2]>>
FMax(a, b) == IF FLess(a, b) THEN b ELSE a

\* ---------------------------------------------------------------- Problem
Directions == {MINIMIZE, MAXIMIZE}

Problems ==
    { [nobjs |-> NObjs, nconstrs |-> nc, directions |-> dirs] :
        nc \in {0, 1}, dirs \in [1..NObjs -> Directions] }

\* --------------------------------------------------------------- Solution
\* An evaluated Solution of problem p.  Problem.evaluate sums the absolute
\* constraint values, so the violation is 0 when the problem has no constraint.
EvaluatedSolutionsWithin(p, violations) ==
    { [objectives |-> objs, constraint_violation |-> cv] :
        objs \in [1..p.nobjs -> ObjectiveValues],
        cv \in IF p.nconstrs > 0 THEN violations ELSE {0} }

EvaluatedSolutions(p) == EvaluatedSolutionsWithin(p, Violations)

\* ------------------------------------------------------- ParetoDominance
\* The constraint check of ParetoDominance.compare and EpsilonDominance.compare.
\* returned is FALSE when the check falls through to the objectives.
ConstraintCheck(p, solution1, solution2) ==
    IF p.nconstrs > 0 /\ solution1.constraint_violation # solution2.constraint_violation
    THEN [returned |-> TRUE,
          flag |-> IF solution1.constraint_violation = 0 THEN -1
                   ELSE IF solution2.constraint_violation = 0 THEN -1
                   ELSE IF solution1.constraint_violation < solution2.constraint_violation
                   THEN -1
                   ELSE 1]
    ELSE [returned |-> FALSE, flag |-> 0]

\* objective i of a solution as the comparison sees it (negated for MAXIMIZE)
Oriented(p, solution, i) ==
    IF p.directions[i] = MAXIMIZE THEN -solution.objectives[i]
    ELSE solution.objectives[i]

\* The loop over the objectives, from objective i on.
RECURSIVE ParetoLoop(_, _, _, _, _, _)
ParetoLoop(p, solution1, solution2, i, dominate1, dominate2) ==
    IF i > p.nobjs
    THEN IF dominate1 = dominate2 THEN 0
         ELSE IF dominate1 THEN -1 ELSE 1
    ELSE LET o1 == Oriented(p, solution1, i)
             o2 == Oriented(p, solution2, i)
         IN  IF o1 < o2
             THEN IF dominate2 THEN 0
                  ELSE ParetoLoop(p, solution1, solution2, i + 1, TRUE, dominate2)
             ELSE IF o1 > o2
             THEN IF dominate1 THEN 0
                  ELSE ParetoLoop(p, solution1, solution2, i + 1, dominate1, TRUE)
             ELSE ParetoLoop(p, solution1, solution2, i + 1, dominate1, dominate2)

ParetoCompare(p, solution1, solution2) ==
    LET c == ConstraintCheck(p, solution1, solution2)
    IN  IF c.returned THEN c.flag
        ELSE ParetoLoop(p, solution1, solution2, 1, FALSE, FALSE)

\* ------------------------------------------------------ EpsilonDominance
\* self.epsilons[i % len(self.epsilons)], objectives counted from 1 here
EpsilonAt(epsilons, i) == epsilons[((i - 1) % Len(epsilons)) + 1]

\* math.floor(o / epsilon): \div rounds towards minus infinity
BoxIndex(o, epsilon) == o \div epsilon

RECURSIVE EpsilonLoop(_, _, _, _, _, _, _)
EpsilonLoop(p, epsilons, solution1, solution2, i, dominate1, dominate2) ==
    IF i > p.nobjs
    THEN [dominate1 |-> dominate1, dominate2 |-> dominate2, both |-> FALSE]
    ELSE LET i1 == BoxIndex(Oriented(p, solution1, i), EpsilonAt(epsilons, i))
             i2 == BoxIndex(Oriented(p, solution2, i), EpsilonAt(epsilons, i))
         IN  IF i1 < i2
             THEN IF dominate2
                  THEN [dominate1 |-> TRUE, dominate2 |-> TRUE, both |-> TRUE]
                  ELSE EpsilonLoop(p, epsilons, solution1, solution2, i + 1, TRUE, dominate2)
             ELSE IF i1 > i2
             THEN IF dominate1
                  THEN [dominate1 |-> TRUE, dominate2 |-> TRUE, both |-> TRUE]
                  ELSE EpsilonLoop(p, epsilons, solution1, solution2, i + 1, dominate1, TRUE)
             ELSE EpsilonLoop(p, epsilons, solution1, solution2, i + 1, dominate1, dominate2)

\* sum over the objectives of (o - index*epsilon)^2, from objective i on
RECURSIVE BoxDistance(_, _, _, _)
BoxDistance(p, epsilons, solution, i) ==
    IF i > p.nobjs THEN 0
    ELSE LET o == Oriented(p, solution, i)
             epsilon == EpsilonAt(epsilons, i)
             r == o - BoxIndex(o, epsilon) * epsilon
         IN  r * r + BoxDistance(p, epsilons, solution, i + 1)

EpsilonCompare(p, epsilons, solution1, solution2) ==
    LET c == ConstraintCheck(p, solution1, solution2)
    IN  IF c.returned THEN c.flag
        ELSE LET l == EpsilonLoop(p, epsilons, solution1, solution2, 1, FALSE, FALSE)
             IN  IF l.both THEN 0
                 ELSE IF ~l.dominate1 /\ ~l.dominate2
                 THEN IF BoxDistance(p, epsilons, solution1, 1)
                           < BoxDistance(p, epsilons, solution2, 1)
                      THEN -1 ELSE 1
                 ELSE IF l.dominate1 THEN -1 ELSE 1

\* ------------------------------------------------------------- Dominance
\* the epsilons an EpsilonDominance is built with: one shared by all objectives
\* (reused cyclically), or one per objective
EpsilonChoices == { <<2>>, <<1, 2>> }

Pareto == [kind |-> "Pareto", epsilons |-> <<>>]

Dominances == {Pareto} \cup { [kind |-> "Epsilon", epsilons |-> e] : e \in EpsilonChoices }

\* dom.compare(solution1, solution2)
Compare(p, dom, solution1, solution2) ==
    IF dom.kind = "Pareto" THEN ParetoCompare(p, solution1, solution2)
    ELSE EpsilonCompare(p, dom.epsilons, solution1, solution2)

\* ======================================================================
\* SpecDominance: Dominance.compare applied to two evaluated solutions
\* ======================================================================
NoFlags == [ij \in {} |-> 0]
ComparedPairs == {<<1, 2>>, <<2, 1>>}

InitDominance ==
    /\ problem \in Problems
    /\ dominance \in Dominances
    /\ solutions \in [1..2 -> EvaluatedSolutions(problem)]
    /\ flags = NoFlags
    /\ contents = <<>>
    /\ added = NoAdd
    /\ nadds = 0
    /\ op = "new"
    /\ rank = <<>>
    /\ crowding_distance = <<>>
    /\ truncated = NoTruncate
    /\ pruned = NoPrune
    /\ NoConstraint
    /\ NoEvaluator

\* flag = dominance.compare(solutions[i], solutions[j])
CompareCall(i, j) ==
    /\ <<i, j>> \notin DOMAIN flags
    /\ flags' = [ij \in DOMAIN flags \cup {<<i, j>>} |->
                    IF ij = <<i, j>>
                    THEN Compare(problem, dominance, solutions[i], solutions[j])
                    ELSE flags[ij]]
    /\ UNCHANGED <<problem, dominance, solutions, op, archiveVars, sortVars, fitnessVars,
                   constraintVars>>

NextDominance == \E ij \in ComparedPairs : CompareCall(ij[1], ij[2])

SpecDominance == InitDominance /\ [][NextDominance]_vars

\* C1: ParetoDominance.compare is antisymmetric: for two evaluated solutions A and
\* B of one problem, compare(A, B) = -compare(B, A).
C1_Antisymmetric ==
    (dominance.kind = "Pareto" /\ DOMAIN flags = ComparedPairs)
        => flags[<<1, 2>>] = -flags[<<2, 1>>]

\* C2: under ParetoDominance and EpsilonDominance, when the problem has constraints
\* and the two constraint violations differ, compare(solution1, solution2) is -1 if
\* solution1 has the lower violation and +1 if solution2 has the lower violation.
C2_LowerViolationWins ==
    (/\ dominance.kind \in {"Pareto", "Epsilon"}
     /\ <<1, 2>> \in DOMAIN flags
     /\ problem.nconstrs > 0
     /\ solutions[1].constraint_violation # solutions[2].constraint_violation)
        => flags[<<1, 2>>] =
              IF solutions[1].constraint_violation < solutions[2].constraint_violation
              THEN -1 ELSE 1

\* ======================================================================
\* Spec: an Archive receiving a sequence of add calls
\* ======================================================================
\* flags = [self._dominance.compare(solution, s) for s in self._contents]
AddFlags(p, dom, archive, solution) ==
    [k \in 1..Len(archive) |-> Compare(p, dom, solution, archive[k])]

\* dominates = map(lambda x : x > 0, flags)
DominatesFlagNegative(flag) == flag < 0
DominatesFlag(flag) == flag > 0

\* nondominated = map(lambda x : x == 0, flags)
NondominatedFlagOrDominated(flag) == flag <= 0
NondominatedFlag(flag) == flag = 0

\* itertools.compress(data, selectors), from position k on
RECURSIVE Compress(_, _, _)
Compress(data, selectors, k) ==
    IF k > Len(data) THEN <<>>
    ELSE (IF selectors[k] THEN <<data[k]>> ELSE <<>>) \o Compress(data, selectors, k + 1)

\* Archive.add: the new _contents and the value returned
ArchiveAdd(p, dom, archive, solution) ==
    LET fl == AddFlags(p, dom, archive, solution)
        dominates == [k \in DOMAIN fl |-> DominatesFlag(fl[k])]
        nondominated == [k \in DOMAIN fl |-> NondominatedFlag(fl[k])]
    IN  IF \E k \in DOMAIN fl : dominates[k]
        THEN [contents |-> archive, result |-> FALSE]
        ELSE [contents |-> Compress(archive, nondominated, 1) \o <<solution>>,
              result |-> TRUE]

Init ==
    /\ problem \in Problems
    /\ dominance \in Dominances
    /\ solutions = <<>>
    /\ flags = NoFlags
    /\ contents = <<>>
    /\ added = NoAdd
    /\ nadds = 0
    /\ op = "new"
    /\ rank = <<>>
    /\ crowding_distance = <<>>
    /\ truncated = NoTruncate
    /\ pruned = NoPrune
    /\ NoConstraint
    /\ NoEvaluator

\* archive.add(solution)
Add(solution) ==
    /\ nadds < MaxAdds
    /\ \E r \in { ArchiveAdd(problem, dominance, contents, solution) } :
           /\ contents' = r.contents
           /\ added' = [called |-> TRUE, before |-> contents,
                        solution |-> solution, result |-> r.result]
    /\ nadds' = nadds + 1
    /\ UNCHANGED <<problem, dominance, solutions, flags, op, sortVars, fitnessVars,
                   constraintVars>>

Next == \E solution \in EvaluatedSolutions(problem) : Add(solution)

Spec == Init /\ [][Next]_vars

\* C3: after any sequence of Archive.add calls from the empty archive, the archive
\* holds no ordered pair of members (A, B) with compare(A, B) < 0.
C3_NoDominatedPair ==
    \A a, b \in 1..Len(contents) :
        Compare(problem, dominance, contents[a], contents[b]) >= 0

\* an add that dropped a member and left at least two members
C3_Witness ==
    /\ added.called /\ added.result
    /\ Len(contents) >= 2
    /\ Len(contents) <= Len(added.before)

\* C4: Archive.add returns false exactly when compare(solution, member) > 0 for some
\* current member, and then the contents are unchanged; otherwise it returns true
\* and the candidate is the last member.
C4_AddResult ==
    added.called =>
        LET rejected == \E k \in 1..Len(added.before) :
                Compare(problem, dominance, added.solution, added.before[k]) > 0
        IN  /\ added.result = ~rejected
            /\ ~added.result => contents = added.before
            /\ added.result =>
                  /\ Len(contents) >= 1
                  /\ contents[Len(contents)] = added.solution

\* an add rejected by an archive of two or more members
C4_Witness ==
    /\ added.called /\ ~added.result
    /\ Len(added.before) >= 2

\* ======================================================================
\* SpecSort: nondominated_sort, crowding_distance and nondominated_truncate
\* applied to a population
\* ======================================================================
\* Solution objects are told apart by identity: the population's k-th solution
\* carries id k.
Tag(pop) ==
    [k \in 1..Len(pop) |->
        [id |-> k, objectives |-> pop[k].objectives,
         constraint_violation |-> pop[k].constraint_violation]]

\* The populations sorted: of at most MaxPop solutions, feasible or infeasible at
\* one level; the problems have the first objective minimized (the other cases
\* are mirror images of these).
PopulationProblems == { p \in Problems : p.directions[1] = MINIMIZE }

Populations(p) ==
    UNION { [1..n -> EvaluatedSolutionsWithin(p, 0..1)] : n \in 0..MaxPop }

Ids(sols) == { sols[k].id : k \in 1..Len(sols) }

\* archive += solutions (Archive.__iadd__), from position k on
RECURSIVE ArchiveExtend(_, _, _, _, _)
ArchiveExtend(p, dom, archive, sols, k) ==
    IF k > Len(sols) THEN archive
    ELSE ArchiveExtend(p, dom, ArchiveAdd(p, dom, archive, sols[k]).contents, sols, k + 1)

\* nondominated(solutions): the contents of a fresh (Pareto) Archive
Nondominated(p, sols) == ArchiveExtend(p, Pareto, <<>>, sols, 1)

\* sorted(solutions, key=lambda x : x.objectives[i])
SortedByObjective(sols, i) ==
    Sorted(sols, { xy \in Range(sols) \X Range(sols) :
                      xy[1].objectives[i] < xy[2].objectives[i] })

\* the new distance of an interior member of the sorted front
InteriorDistanceAssigned(distance, diff, range) ==
    IF BelowEpsilon(range) THEN POSITIVE_INFINITY
    ELSE Frac(diff, range)
InteriorDistance(distance, diff, range) ==
    IF BelowEpsilon(range) THEN POSITIVE_INFINITY
    ELSE FAdd(distance, Frac(diff, range))

\* the body of the loop over the objectives, for objective i
CrowdingPass(sols, cd, i) ==
    LET sorted_solutions == SortedByObjective(sols, i)
        n == Len(sorted_solutions)
        min_value == sorted_solutions[1].objectives[i]
        max_value == sorted_solutions[n].objectives[i]
    IN  [id \in DOMAIN cd |->
            LET j == CHOOSE k \in 1..n : sorted_solutions[k].id = id
            IN  IF j = 1 \/ j = n THEN FAdd(cd[id], POSITIVE_INFINITY)
                ELSE InteriorDistance(cd[id],
                        sorted_solutions[j + 1].objectives[i]
                            - sorted_solutions[j - 1].objectives[i],
                        max_value - min_value)]

RECURSIVE CrowdingLoop(_, _, _, _)
CrowdingLoop(sols, cd, i, nobjs) ==
    IF i > nobjs THEN cd
    ELSE CrowdingLoop(sols, CrowdingPass(sols, cd, i), i + 1, nobjs)

\* crowding_distance(solutions): the distances assigned, by solution id
CrowdingDistance(p, sols) ==
    IF Len(sols) < 3 THEN [id \in Ids(sols) |-> POSITIVE_INFINITY]
    ELSE CrowdingLoop(sols, [id \in Ids(sols) |-> Zero], 1, p.nobjs)

\* [x for x in solutions if x not in archive]
RemainingReversed(sols, archive) ==
    LET r == SelectSeq(sols, LAMBDA x : x.id \notin Ids(archive))
    IN  [k \in 1..Len(r) |-> r[Len(r) + 1 - k]]
Remaining(sols, archive) == SelectSeq(sols, LAMBDA x : x.id \notin Ids(archive))

NoAttributes == [rank |-> <<>>, crowding_distance |-> <<>>]

\* the while loop of nondominated_sort; attrs are the attributes assigned so far
RECURSIVE NondominatedSortLoop(_, _, _, _)
NondominatedSortLoop(p, sols, r, attrs) ==
    IF Len(sols) = 0 THEN attrs
    ELSE LET archive == Nondominated(p, sols)
         IN  NondominatedSortLoop(p, Remaining(sols, archive), r + 1,
                [rank |-> Merge(attrs.rank, [id \in Ids(archive) |-> r]),
                 crowding_distance |->
                    Merge(attrs.crowding_distance, CrowdingDistance(p, archive))])

NondominatedSort(p, sols, attrs) == NondominatedSortLoop(p, sols, 0, attrs)

\* comparator(x, y) of nondominated_truncate
ComparatorAscending(attrs, x, y) ==
    IF attrs.rank[x.id] = attrs.rank[y.id]
    THEN FCmp(attrs.crowding_distance[x.id], attrs.crowding_distance[y.id])
    ELSE Cmp(attrs.rank[x.id], attrs.rank[y.id])
Comparator(attrs, x, y) ==
    IF attrs.rank[x.id] = attrs.rank[y.id]
    THEN FCmp(FNeg(attrs.crowding_distance[x.id]), FNeg(attrs.crowding_distance[y.id]))
    ELSE Cmp(attrs.rank[x.id], attrs.rank[y.id])

NondominatedTruncate(attrs, sols, size) ==
    Take(Sorted(sols, { xy \in Range(sols) \X Range(sols) :
                           Comparator(attrs, xy[1], xy[2]) < 0 }),
         size)

\* the while loop of nondominated_split; attrs.rank is read of every solution
RECURSIVE SplitLoop(_, _, _, _, _)
SplitLoop(attrs, sols, size, result, r) ==
    IF Len(result) < size
    THEN LET front == SelectSeq(sols, LAMBDA x : attrs.rank[x.id] = r)
         IN  IF Len(front) = 0 THEN [first |-> result, last |-> <<>>]
             ELSE IF Len(result) + Len(front) <= size
             THEN SplitLoop(attrs, sols, size, result \o front, r + 1)
             ELSE [first |-> result, last |-> front]
    ELSE [first |-> result, last |-> <<>>]

\* nondominated_split(solutions, size)
NondominatedSplit(attrs, sols, size) == SplitLoop(attrs, sols, size, <<>>, 0)

\* the order of sorted(remaining, key=operator.attrgetter("crowding_distance"))
PruneLessDescending(cd, x, y) == FLess(cd[y.id], cd[x.id])
PruneLess(cd, x, y) == FLess(cd[x.id], cd[y.id])

\* The while loop of nondominated_prune.  cd holds the crowding_distance
\* attributes; removals lists, for every pass, the list `remaining` the distances
\* were recomputed over and the solution deleted.  del remaining[0] raises
\* IndexError on an empty list.
RECURSIVE PruneLoop(_, _, _, _, _, _)
PruneLoop(p, result, remaining, size, cd, removals) ==
    IF Len(result) + Len(remaining) > size
    THEN LET assigned == Merge(cd, CrowdingDistance(p, remaining))
             sorted == Sorted(remaining,
                              { xy \in Range(remaining) \X Range(remaining) :
                                   PruneLess(assigned, xy[1], xy[2]) })
         IN  IF Len(sorted) = 0
             THEN [error |-> "IndexError", result |-> <<>>,
                   crowding_distance |-> assigned, removals |-> removals]
             ELSE PruneLoop(p, result, Tail(sorted), size, assigned,
                            Append(removals,
                                   [remaining |-> remaining, removed |-> sorted[1]]))
    ELSE [error |-> "none", result |-> result \o remaining,
          crowding_distance |-> cd, removals |-> removals]

\* nondominated_prune(solutions, size)
NondominatedPrune(p, attrs, sols, size) ==
    LET split == NondominatedSplit(attrs, sols, size)
    IN  PruneLoop(p, split.first, split.last, size, attrs.crowding_distance, <<>>)

InitSort ==
    /\ problem \in PopulationProblems
    /\ dominance = Pareto
    /\ \E pop \in Populations(problem) : solutions = Tag(pop)
    /\ flags = NoFlags
    /\ contents = <<>>
    /\ added = NoAdd
    /\ nadds = 0
    /\ op = "new"
    /\ rank = <<>>
    /\ crowding_distance = <<>>
    /\ truncated = NoTruncate
    /\ pruned = NoPrune
    /\ NoConstraint
    /\ NoEvaluator

\* nondominated_sort(solutions)
NondominatedSortCall ==
    /\ op = "new"
    /\ \E attrs \in { NondominatedSort(problem, solutions,
                           [rank |-> rank, crowding_distance |-> crowding_distance]) } :
           /\ rank' = attrs.rank
           /\ crowding_distance' = attrs.crowding_distance
    /\ op' = "nondominated_sort"
    /\ UNCHANGED <<problem, dominance, solutions, flags, archiveVars, truncated, pruned,
                   fitnessVars, constraintVars>>

\* crowding_distance(solutions), the whole population taken as one front
CrowdingDistanceCall ==
    /\ op = "new"
    /\ crowding_distance' = CrowdingDistance(problem, solutions)
    /\ op' = "crowding_distance"
    /\ UNCHANGED <<problem, dominance, solutions, flags, archiveVars, rank, truncated, pruned,
                   fitnessVars, constraintVars>>

\* nondominated_truncate(solutions, size); the comparator reads rank and
\* crowding_distance of every solution
NondominatedTruncateCall(size) ==
    /\ op \notin {"nondominated_truncate", "nondominated_prune"}
    /\ DOMAIN rank = Ids(solutions)
    /\ DOMAIN crowding_distance = Ids(solutions)
    /\ truncated' =
          [size |-> size,
           result |-> NondominatedTruncate(
                          [rank |-> rank, crowding_distance |-> crowding_distance],
                          solutions, size)]
    /\ op' = "nondominated_truncate"
    /\ UNCHANGED <<problem, dominance, solutions, flags, archiveVars, rank,
                   crowding_distance, pruned, fitnessVars, constraintVars>>

\* nondominated_prune(solutions, size) on a population that has been sorted
NondominatedPruneCall(size) ==
    /\ op = "nondominated_sort"
    /\ \E r \in { NondominatedPrune(problem,
                     [rank |-> rank, crowding_distance |-> crowding_distance],
                     solutions, size) } :
          /\ pruned' = [size |-> size, error |-> r.error, result |-> r.result,
                        removals |-> r.removals]
          /\ crowding_distance' = r.crowding_distance
    /\ op' = "nondominated_prune"
    /\ UNCHANGED <<problem, dominance, solutions, flags, archiveVars, rank, truncated,
                   fitnessVars, constraintVars>>

NextSort ==
    \/ NondominatedSortCall
    \/ CrowdingDistanceCall
    \/ \E size \in 0..(MaxPop + 1) : NondominatedTruncateCall(size)
    \/ \E size \in 0..(MaxPop + 1) : NondominatedPruneCall(size)

SpecSort == InitSort /\ [][NextSort]_vars

\* C5: nondominated_sort assigns rank 0 to exactly the solutions returned by
\* nondominated(population), and nondominated_sort on the population without its
\* rank-0 solutions (order kept) gives every remaining solution its rank minus one.
C5_SortRanks ==
    op = "nondominated_sort" =>
        LET rest == SelectSeq(solutions, LAMBDA x : rank[x.id] # 0)
            again == NondominatedSort(problem, rest, NoAttributes).rank
        IN  /\ DOMAIN rank = Ids(solutions)
            /\ { id \in DOMAIN rank : rank[id] = 0 } = Ids(Nondominated(problem, solutions))
            /\ DOMAIN again = Ids(rest)
            /\ \A id \in Ids(rest) : again[id] = rank[id] - 1

\* a sorted population of three fronts
C5_Witness ==
    /\ op = "nondominated_sort"
    /\ \E id \in DOMAIN rank : rank[id] = 2

\* the members that are first or last in some objective's sorted order
Extremes(p, sols) ==
    { SortedByObjective(sols, i)[1].id : i \in 1..p.nobjs }
    \cup { SortedByObjective(sols, i)[Len(sols)].id : i \in 1..p.nobjs }

\* every objective's max - min is at least machine epsilon
NonDegenerate(p, sols) ==
    \A i \in 1..p.nobjs :
        \E x, y \in Range(sols) : x.objectives[i] # y.objectives[i]

\* C6: crowding_distance gives +infinity to every member of a front of fewer than 3
\* members; for 3 or more members, the first and last member of each objective's
\* sorted order get +infinity, and every member that is first or last in no
\* objective's order gets a non-negative finite distance whenever every objective's
\* range is at least machine epsilon.
C6_CrowdingDistance ==
    op = "crowding_distance" =>
        /\ DOMAIN crowding_distance = Ids(solutions)
        /\ Len(solutions) < 3 =>
              \A id \in Ids(solutions) : crowding_distance[id] = POSITIVE_INFINITY
        /\ Len(solutions) >= 3 =>
              /\ \A id \in Extremes(problem, solutions) :
                    crowding_distance[id] = POSITIVE_INFINITY
              /\ NonDegenerate(problem, solutions) =>
                    \A id \in Ids(solutions) \ Extremes(problem, solutions) :
                        /\ IsFinite(crowding_distance[id])
                        /\ crowding_distance[id][1] >= 0

\* a front of three with an interior member of positive finite distance
C6_Witness ==
    /\ op = "crowding_distance"
    /\ Len(solutions) >= 3
    /\ NonDegenerate(problem, solutions)
    /\ \E id \in Ids(solutions) \ Extremes(problem, solutions) :
          IsFinite(crowding_distance[id]) /\ crowding_distance[id][1] > 0

\* C7: nondominated_truncate(population, size), size >= 0, returns exactly
\* min(size, |population|) solutions of the population, with ranks non-decreasing
\* in the returned order and crowding distance non-increasing within equal rank.
C7_Truncate ==
    op = "nondominated_truncate" =>
        LET result == truncated.result
        IN  /\ Len(result) = Min(truncated.size, Len(solutions))
            /\ Range(result) \subseteq Range(solutions)
            /\ Cardinality(Ids(result)) = Len(result)
            /\ \A a, b \in 1..Len(result) :
                  a < b =>
                      /\ rank[result[a].id] <= rank[result[b].id]
                      /\ rank[result[a].id] = rank[result[b].id] =>
                            ~FLess(crowding_distance[result[a].id],
                                   crowding_distance[result[b].id])

\* a truncation that drops a solution and returns two fronts, and one whose result
\* orders two members of one front by distinct crowding distances
C7_Witness ==
    /\ op = "nondominated_truncate"
    /\ \/ /\ truncated.size < Len(solutions)
          /\ \E a, b \in 1..Len(truncated.result) :
                rank[truncated.result[a].id] < rank[truncated.result[b].id]
       \/ \E a, b \in 1..Len(truncated.result) :
             /\ a < b
             /\ rank[truncated.result[a].id] = rank[truncated.result[b].id]
             /\ FLess(crowding_distance[truncated.result[b].id],
                      crowding_distance[truncated.result[a].id])

\* the solutions of the fronts that fit whole into size places, and the members
\* of the first front that does not
WholeFronts(size) ==
    { id \in Ids(solutions) :
         Cardinality({ other \in Ids(solutions) : rank[other] <= rank[id] }) <= size }

BoundaryFront(size) ==
    { id \in Ids(solutions) \ WholeFronts(size) :
         \A other \in Ids(solutions) \ WholeFronts(size) : rank[id] <= rank[other] }

\* C12: on a non-dominated-sorted population, nondominated_prune(solutions, size)
\* returns (raising nothing) exactly min(size, |solutions|) solutions: all of the
\* fronts that fit whole, plus members of the boundary front; every solution
\* removed was, when removed, a member of the current boundary set with the
\* lowest crowding distance recomputed over that set.
C12_Prune ==
    op = "nondominated_prune" =>
        LET result == pruned.result
            removals == pruned.removals
            removedBefore(k) == { removals[j].removed.id : j \in 1..(k - 1) }
        IN  /\ pruned.error = "none"
            /\ Len(result) = Min(pruned.size, Len(solutions))
            /\ Cardinality(Ids(result)) = Len(result)
            /\ Range(result) \subseteq Range(solutions)
            /\ WholeFronts(pruned.size) \subseteq Ids(result)
            /\ Ids(result) =
                  IF Len(removals) = 0 THEN WholeFronts(pruned.size)
                  ELSE (WholeFronts(pruned.size) \cup BoundaryFront(pruned.size))
                          \ removedBefore(Len(removals) + 1)
            /\ \A k \in 1..Len(removals) :
                  LET current == removals[k].remaining
                      distance == CrowdingDistance(problem, current)
                  IN  /\ Ids(current) = BoundaryFront(pruned.size) \ removedBefore(k)
                      /\ removals[k].removed \in Range(current)
                      /\ \A x \in Range(current) :
                            ~FLess(distance[x.id], distance[removals[k].removed.id])

\* a prune of a front of three to one place: the interior member goes first, its
\* distance the only finite one, then one of the two left
C12_Witness ==
    /\ op = "nondominated_prune"
    /\ Len(pruned.removals) = 2
    /\ Len(pruned.removals[1].remaining) = 3
    /\ LET distance == CrowdingDistance(problem, pruned.removals[1].remaining)
       IN  \E x \in Range(pruned.removals[1].remaining) :
              FLess(distance[pruned.removals[1].removed.id], distance[x.id])
    /\ Len(pruned.result) = 1

\* C14: after nondominated_sort on any population, constrained problems and
\* differing constraint violations included, no solution of a later front
\* dominates a solution of an earlier front: there are no x, y with
\* x.rank > y.rank and ParetoDominance.compare(x, y) < 0.
C14_RankRespectsDominance ==
    op = "nondominated_sort" =>
        \A x, y \in Range(solutions) :
            ~(rank[x.id] > rank[y.id] /\ Compare(problem, Pareto, x, y) < 0)

\* ======================================================================
\* SpecFitness: HypervolumeFitnessEvaluator.evaluate on a population,
\* followed by remove calls
\* ======================================================================
\* kappa = 0.05 and the values of rho modelled (2.0 is the default)
Kappa == <<1, 20>>
Rhos == { <<2, 1>>, <<3, 1>> }

\* The populations evaluated: of at most MaxPop solutions of a constrained
\* problem of any directions, all feasible or all feasible but the first (one
\* infeasible solution is what it takes to reach each error of evaluate).
FitnessProblems == { p \in Problems : p.nconstrs > 0 }

FitnessPopulations(p) ==
    LET feasible == UNION { [1..n -> EvaluatedSolutionsWithin(p, {0})] : n \in 0..MaxPop }
    IN  feasible \cup
        { [pop EXCEPT ![1].constraint_violation = 1] :
            pop \in { q \in feasible : Len(q) > 0 } }

\* the solution2 argument of hypervolume when it is None
NoSolution == [none |-> TRUE]
IsNone(solution) == "none" \in DOMAIN solution

HasNormalized(solution) == "normalized_objectives" \in DOMAIN solution

\* normalize(solutions) with minimum = maximum = None, for a non-empty list
Normalize(p, sols) ==
    LET feasible == { k \in 1..Len(sols) : sols[k].constraint_violation = 0 }
        values(i) == { sols[k].objectives[i] : k \in feasible }
        minimum == [i \in 1..p.nobjs |-> CHOOSE v \in values(i) : \A w \in values(i) : v <= w]
        maximum == [i \in 1..p.nobjs |-> CHOOSE v \in values(i) : \A w \in values(i) : v >= w]
    IN  IF feasible = {} THEN [error |-> "ValueError", solutions |-> sols]
        ELSE IF \E i \in 1..p.nobjs : BelowEpsilon(maximum[i] - minimum[i])
        THEN [error |-> "PlatypusError", solutions |-> sols]
        ELSE [error |-> "none",
              solutions |->
                [k \in 1..Len(sols) |->
                    IF k \in feasible
                    THEN [id |-> sols[k].id, objectives |-> sols[k].objectives,
                          constraint_violation |-> sols[k].constraint_violation,
                          normalized_objectives |->
                             [i \in 1..p.nobjs |->
                                 Frac(sols[k].objectives[i] - minimum[i],
                                      maximum[i] - minimum[i])]]
                    ELSE sols[k]]]

\* the case d == 1 of hypervolume
HypervolumeBaseUnscaled(r, a, b) == IF FLess(a, b) THEN FSub(b, a) ELSE Zero
HypervolumeBase(r, a, b) == IF FLess(a, b) THEN FDiv(FSub(b, a), r) ELSE Zero

\* HypervolumeFitnessEvaluator.hypervolume(solution1, solution2, d)
RECURSIVE Hypervolume(_, _, _, _, _)
Hypervolume(p, r, solution1, solution2, d) ==
    LET a0 == solution1.normalized_objectives[d]
        b0 == IF IsNone(solution2) THEN r ELSE solution2.normalized_objectives[d]
        a == IF p.directions[d] = MAXIMIZE THEN FSub(<<1, 1>>, a0) ELSE a0
        b == IF p.directions[d] = MAXIMIZE THEN FSub(<<1, 1>>, b0) ELSE b0
    IN  IF d = 1 THEN HypervolumeBase(r, a, b)
        ELSE IF FLess(a, b)
        THEN FAdd(FDiv(FMul(Hypervolume(p, r, solution1, NoSolution, d - 1), FSub(b, a)), r),
                  FDiv(FMul(Hypervolume(p, r, solution1, solution2, d - 1), FSub(r, b)), r))
        ELSE FDiv(FMul(Hypervolume(p, r, solution1, solution2, d - 1), FSub(r, a)), r)

\* whether calculate_indicator(solution1, solution2) raises AttributeError: it
\* reads normalized_objectives, which normalize does not give an infeasible solution
IndicatorRaises(p, dom, solution1, solution2) ==
    IF Compare(p, dom, solution1, solution2) < 0
    THEN ~HasNormalized(solution1) \/ ~HasNormalized(solution2)
    ELSE ~HasNormalized(solution2)

\* HypervolumeFitnessEvaluator.calculate_indicator(solution1, solution2)
CalculateIndicator(p, r, dom, solution1, solution2) ==
    IF Compare(p, dom, solution1, solution2) < 0
    THEN FNeg(Hypervolume(p, r, solution1, solution2, p.nobjs))
    ELSE Hypervolume(p, r, solution2, solution2, p.nobjs)

\* the loops of evaluate that fill fitcomp and max_fitness, from pair (i, j) on;
\* they stop where calculate_indicator raises
RECURSIVE IndicatorLoop(_, _, _, _, _, _, _, _)
IndicatorLoop(p, r, dom, sols, i, j, fc, mf) ==
    IF i > Len(sols) THEN [error |-> "none", fitcomp |-> fc, max_fitness |-> mf]
    ELSE IF j > Len(sols)
    THEN IF i = Len(sols) THEN [error |-> "none", fitcomp |-> fc, max_fitness |-> mf]
         ELSE IndicatorLoop(p, r, dom, sols, i + 1, 1, Append(fc, <<>>), mf)
    ELSE IF IndicatorRaises(p, dom, sols[i], sols[j])
    THEN [error |-> "AttributeError", fitcomp |-> fc, max_fitness |-> mf]
    ELSE LET value == CalculateIndicator(p, r, dom, sols[i], sols[j])
         IN  IndicatorLoop(p, r, dom, sols, i, j + 1,
                           [fc EXCEPT ![i] = Append(@, value)],
                           FMax(mf, FAbs(value)))

\* A sum of exponentials exp(x) is kept as the function from each exponent x to
\* the number of times exp(x) occurs.  The exponents are rational, and
\* exponentials of distinct rationals are linearly independent over the rationals
\* (Lindemann-Weierstrass), so two sums are equal exactly when these functions are.
NoTerms == [x \in {} |-> 0]

\* sum + sign * exp(x)
AddExp(sum, x, sign) ==
    LET c == (IF x \in DOMAIN sum THEN sum[x] ELSE 0) + sign
    IN  [y \in (IF c = 0 THEN DOMAIN sum \ {x} ELSE DOMAIN sum \cup {x}) |->
            IF y = x THEN c ELSE sum[y]]

\* (-fitcomp[j][i] / max_fitness) / kappa
Exponent(fc, mf, j, i) == FDiv(FDiv(FNeg(fc[j][i]), mf), Kappa)

\* the inner loop of evaluate's second part: the sum for solution i, from j on
RECURSIVE FitnessSum(_, _, _, _, _, _)
FitnessSum(fc, mf, n, i, j, sum) ==
    IF j > n THEN sum
    ELSE FitnessSum(fc, mf, n, i, j + 1,
                    IF i # j THEN AddExp(sum, Exponent(fc, mf, j, i), 1) ELSE sum)

\* FitnessEvaluator.evaluate(solutions) on a non-empty list: the exception raised (or
\* "none") and what the call has assigned when it returns or raises.  old is the
\* evaluator and fitness state before the call.
Evaluate(p, r, dom, sols, old) ==
    LET nz == Normalize(p, sols)
        il == IndicatorLoop(p, r, dom, nz.solutions, 1, 1, <<<<>>>>, <<-1, 0>>)
    IN  IF nz.error # "none"
        THEN [error |-> nz.error, solutions |-> sols, fitcomp |-> old.fitcomp,
              max_fitness |-> old.max_fitness, fitness |-> old.fitness]
        ELSE IF il.error # "none"
        THEN [error |-> il.error, solutions |-> nz.solutions, fitcomp |-> il.fitcomp,
              max_fitness |-> il.max_fitness, fitness |-> old.fitness]
        ELSE IF il.max_fitness = Zero
        THEN [error |-> "ZeroDivisionError", solutions |-> nz.solutions,
              fitcomp |-> il.fitcomp, max_fitness |-> il.max_fitness,
              fitness |-> old.fitness]
        ELSE [error |-> "none", solutions |-> nz.solutions, fitcomp |-> il.fitcomp,
              max_fitness |-> il.max_fitness,
              fitness |->
                 Merge(old.fitness,
                       [id \in Ids(sols) |->
                           LET i == CHOOSE k \in 1..Len(sols) : sols[k].id = id
                           IN  FitnessSum(il.fitcomp, il.max_fitness, Len(sols), i, 1,
                                          NoTerms)])]

\* the exponent of the term remove subtracts from the fitness of solution i
RemovedExponentTransposed(fc, mf, index, i) == Exponent(fc, mf, i, index)
RemovedExponent(fc, mf, index, i) == Exponent(fc, mf, index, i)

\* seq without its element at position index
Delete(seq, index) == SubSeq(seq, 1, index - 1) \o SubSeq(seq, index + 1, Len(seq))

\* FitnessEvaluator.remove(solutions, index), index counted from 1.  Of fitcomp the
\* rows and columns of the remaining solutions are kept: the code leaves a stale
\* last row and column behind them, which it never reads.
Remove(sols, fc, mf, fit, index) ==
    [solutions |-> Delete(sols, index),
     fitcomp |-> Delete([i \in 1..Len(fc) |-> Delete(fc[i], index)], index),
     fitness |->
        [id \in DOMAIN fit |->
            IF id \in Ids(sols) /\ id # sols[index].id
            THEN LET i == CHOOSE k \in 1..Len(sols) : sols[k].id = id
                 IN  AddExp(fit[id], RemovedExponent(fc, mf, index, i), -1)
            ELSE fit[id]]]

InitFitness ==
    /\ problem \in FitnessProblems
    /\ dominance = Pareto
    /\ \E pop \in FitnessPopulations(problem) : solutions = Tag(pop)
    /\ flags = NoFlags
    /\ contents = <<>>
    /\ added = NoAdd
    /\ nadds = 0
    /\ op = "new"
    /\ rank = <<>>
    /\ crowding_distance = <<>>
    /\ truncated = NoTruncate
    /\ pruned = NoPrune
    /\ NoConstraint
    /\ rho \in Rhos
    /\ fitcomp = <<>>
    /\ max_fitness = <<0, 1>>
    /\ fitness = <<>>
    /\ error = "none"
    /\ nremoved = 0

\* evaluator.evaluate(solutions)
EvaluateCall ==
    /\ op = "new"
    /\ op' = "evaluate"
    /\ IF Len(solutions) = 0
       THEN UNCHANGED <<solutions, fitcomp, max_fitness, fitness, error>>
       ELSE \E e \in { Evaluate(problem, rho, dominance, solutions,
                                 [fitcomp |-> fitcomp, max_fitness |-> max_fitness,
                                  fitness |-> fitness]) } :
                /\ solutions' = e.solutions
                /\ fitcomp' = e.fitcomp
                /\ max_fitness' = e.max_fitness
                /\ fitness' = e.fitness
                /\ error' = e.error
    /\ UNCHANGED <<problem, dominance, flags, archiveVars, sortVars, rho, nremoved,
                   constraintVars>>

\* evaluator.remove(solutions, index) after an evaluate that returned
RemoveCall(index) ==
    /\ op \in {"evaluate", "remove"}
    /\ error = "none"
    /\ nremoved < MaxRemoves
    /\ index \in 1..Len(solutions)
    /\ \E r \in { Remove(solutions, fitcomp, max_fitness, fitness, index) } :
           /\ solutions' = r.solutions
           /\ fitcomp' = r.fitcomp
           /\ fitness' = r.fitness
    /\ op' = "remove"
    /\ nremoved' = nremoved + 1
    /\ UNCHANGED <<problem, dominance, flags, archiveVars, sortVars, rho, max_fitness,
                   error, constraintVars>>

NextFitness ==
    \/ EvaluateCall
    \/ \E index \in 1..MaxPop : RemoveCall(index)

SpecFitness == InitFitness /\ [][NextFitness]_vars

AllMinimize(p) == \A i \in 1..p.nobjs : p.directions[i] = MINIMIZE

\* the product over the objectives 1..d of (r - normalized objective)
RECURSIVE BoxVolume(_, _, _)
BoxVolume(r, solution, d) ==
    IF d = 0 THEN <<1, 1>>
    ELSE FMul(BoxVolume(r, solution, d - 1), FSub(r, solution.normalized_objectives[d]))

RECURSIVE FPower(_, _)
FPower(r, d) == IF d = 0 THEN <<1, 1>> ELSE FMul(FPower(r, d - 1), r)

\* the pairs (i, j) of solutions whose indicator evaluate has stored in fitcomp
Indicated ==
    { ij \in (1..Len(fitcomp)) \X (1..Len(solutions)) : ij[2] <= Len(fitcomp[ij[1]]) }

\* C8: for MINIMIZE objectives and normalized objectives in [0,1], whenever
\* solution1 Pareto-dominates solution2, calculate_indicator(solution1, solution2)
\* is -(prod_i(rho - a_i) - prod_i(rho - b_i)) / rho^n; for rho = 2, solution1 = (0,0)
\* and solution2 = (1,1) this is -0.75.
C8_ExclusiveVolume ==
    (op = "evaluate" /\ AllMinimize(problem)) =>
        \A ij \in Indicated :
            Compare(problem, Pareto, solutions[ij[1]], solutions[ij[2]]) < 0 =>
                fitcomp[ij[1]][ij[2]] =
                    FNeg(FDiv(FSub(BoxVolume(rho, solutions[ij[1]], problem.nobjs),
                                   BoxVolume(rho, solutions[ij[2]], problem.nobjs)),
                              FPower(rho, problem.nobjs)))

\* rho = 2, solution1 at (0,0) dominating solution2 at (1,1): the indicator is -3/4
C8_Witness ==
    /\ op = "evaluate" /\ AllMinimize(problem) /\ rho = <<2, 1>>
    /\ \E ij \in Indicated :
          /\ Compare(problem, Pareto, solutions[ij[1]], solutions[ij[2]]) < 0
          /\ solutions[ij[1]].normalized_objectives = <<Zero, Zero>>
          /\ solutions[ij[2]].normalized_objectives = << <<1, 1>>, <<1, 1>> >>
          /\ fitcomp[ij[1]][ij[2]] = <<-3, 4>>

\* C9: when solution1 does not Pareto-dominate solution2, calculate_indicator
\* returns a strictly positive value for every solution2 with normalized
\* objectives in [0,1] and rho = 2.0.
C9_PositiveWhenNotDominating ==
    (op = "evaluate" /\ rho = <<2, 1>>) =>
        \A ij \in Indicated :
            Compare(problem, Pareto, solutions[ij[1]], solutions[ij[2]]) >= 0 =>
                FLess(Zero, fitcomp[ij[1]][ij[2]])

\* what evaluate, run afresh on the solutions that remain, would assign
FreshEvaluate ==
    Evaluate(problem, rho, dominance, solutions,
             [fitcomp |-> <<>>, max_fitness |-> <<0, 1>>, fitness |-> <<>>])

IndicatorMatrix ==
    [i \in 1..Len(solutions) |->
        [j \in 1..Len(solutions) |->
            CalculateIndicator(problem, rho, dominance, solutions[i], solutions[j])]]

Minimized(p) ==
    [nobjs |-> p.nobjs, nconstrs |-> p.nconstrs,
     directions |-> [i \in 1..p.nobjs |-> MINIMIZE]]

Reflected(p, solution) ==
    [solution EXCEPT !.normalized_objectives =
        [i \in 1..p.nobjs |->
            IF p.directions[i] = MAXIMIZE
            THEN FSub(<<1, 1>>, solution.normalized_objectives[i])
            ELSE solution.normalized_objectives[i]]]

\* C13: calculate_indicator on a problem with MAXIMIZE objectives equals, for the
\* same dominance relation of the pair, the indicator of the all-MINIMIZE problem
\* on the pair with every normalized value v of a MAXIMIZE objective replaced by
\* 1 - v, the reference point rho being the upper bound there as well.
C13_MaximizeMirrors ==
    op = "evaluate" =>
        \A ij \in Indicated :
            fitcomp[ij[1]][ij[2]] =
                IF Compare(problem, dominance, solutions[ij[1]], solutions[ij[2]]) < 0
                THEN FNeg(Hypervolume(Minimized(problem), rho,
                                      Reflected(problem, solutions[ij[1]]),
                                      Reflected(problem, solutions[ij[2]]),
                                      problem.nobjs))
                ELSE Hypervolume(Minimized(problem), rho,
                                 Reflected(problem, solutions[ij[2]]),
                                 Reflected(problem, solutions[ij[2]]),
                                 problem.nobjs)

\* ======================================================================
\* SpecConstraint: a Constraint built from a text, then called on values
\* ======================================================================
\* Constraint.DELTA = 0.0001
DELTA == <<1, 10000>>

\* The texts are sequences of one-character strings.  The six keys of
\* Constraint.OPERATORS:
OperatorTexts ==
    { <<"=", "=">>, <<"<", "=">>, <<">", "=">>, <<"!", "=">>, <<"<">>, <<">">> }

\* the numbers written after the operator
Numerals ==
    { <<"0">>, <<"1">>, <<"2">>, <<"-", "1">>, <<"1", "0">>, <<"0", ".", "5">> }

ConstraintTexts == { o \o n : o \in OperatorTexts, n \in Numerals }

\* the values a constraint is called on
ConstraintValues == { <<v, 1>> : v \in -2..2 } \cup { <<1, 2>> }

Digit(c) ==
    CASE c = "0" -> 0 [] c = "1" -> 1 [] c = "2" -> 2 [] c = "3" -> 3 [] c = "4" -> 4
      [] c = "5" -> 5 [] c = "6" -> 6 [] c = "7" -> 7 [] c = "8" -> 8 [] c = "9" -> 9

\* the digits of text from position k on, read in base ten onto acc = <<n, d>>;
\* after the point every digit also multiplies the denominator
RECURSIVE FloatDigits(_, _, _, _)
FloatDigits(text, k, acc, afterPoint) ==
    IF k > Len(text) THEN acc
    ELSE IF text[k] = "." THEN FloatDigits(text, k + 1, acc, TRUE)
    ELSE FloatDigits(text, k + 1,
                     <<acc[1] * 10 + Digit(text[k]),
                       IF afterPoint THEN acc[2] * 10 ELSE acc[2]>>,
                     afterPoint)

\* float(text) for a decimal numeral with an optional sign
Float(text) ==
    LET negative == text[1] = "-"
        magnitude == FloatDigits(text, IF negative THEN 2 ELSE 1, <<0, 1>>, FALSE)
    IN  Frac(IF negative THEN -magnitude[1] ELSE magnitude[1], magnitude[2])

\* the lambdas of Constraint.OPERATORS
OperatorEq(x, y) == FAbs(FSub(x, y))
OperatorLeq(x, y) == IF ~FLess(y, x) THEN Zero ELSE FAbs(FSub(x, y))
OperatorGeq(x, y) == IF ~FLess(x, y) THEN Zero ELSE FAbs(FSub(x, y))
OperatorNeq(x, y) == IF x # y THEN Zero ELSE <<1, 1>>
OperatorLtNoDelta(x, y) == IF FLess(x, y) THEN Zero ELSE FAbs(FSub(x, y))
OperatorLt(x, y) == IF FLess(x, y) THEN Zero ELSE FAdd(FAbs(FSub(x, y)), DELTA)
OperatorGt(x, y) == IF FLess(y, x) THEN Zero ELSE FAdd(FAbs(FSub(x, y)), DELTA)

\* Constraint.OPERATORS[key](x, y)
Operators(key, x, y) ==
    CASE key = <<"=", "=">> -> OperatorEq(x, y)
      [] key = <<"<", "=">> -> OperatorLeq(x, y)
      [] key = <<">", "=">> -> OperatorGeq(x, y)
      [] key = <<"!", "=">> -> OperatorNeq(x, y)
      [] key = <<"<">> -> OperatorLt(x, y)
      [] key = <<">">> -> OperatorGt(x, y)

\* Constraint.parse(constraint) for a text: the partial application
\* OPERATORS[key] with y bound.  constraint[1] of Python is the second character.
Parse(text) ==
    IF text[2] = "="
    THEN [parsed |-> TRUE, op |-> SubSeq(text, 1, 2),
          y |-> Float(SubSeq(text, 3, Len(text)))]
    ELSE [parsed |-> TRUE, op |-> SubSeq(text, 1, 1),
          y |-> Float(SubSeq(text, 2, Len(text)))]

InitConstraint ==
    /\ problem = [nobjs |-> NObjs, nconstrs |-> 1,
                  directions |-> [i \in 1..NObjs |-> MINIMIZE]]
    /\ dominance = Pareto
    /\ solutions = <<>>
    /\ flags = NoFlags
    /\ contents = <<>>
    /\ added = NoAdd
    /\ nadds = 0
    /\ op = "new"
    /\ rank = <<>>
    /\ crowding_distance = <<>>
    /\ truncated = NoTruncate
    /\ pruned = NoPrune
    /\ NoEvaluator
    /\ constraint \in ConstraintTexts
    /\ function = [parsed |-> FALSE]
    /\ violation = [called |-> FALSE]

\* Constraint(op) for a text op
ConstraintNew ==
    /\ ~function.parsed
    /\ function' = Parse(constraint)
    /\ UNCHANGED <<problem, dominance, solutions, flags, op, archiveVars, sortVars,
                   fitnessVars, constraint, violation>>

\* constraint(value)
ConstraintCall(value) ==
    /\ function.parsed
    /\ violation' = [called |-> TRUE, value |-> value,
                     result |-> Operators(function.op, value, function.y)]
    /\ UNCHANGED <<problem, dominance, solutions, flags, op, archiveVars, sortVars,
                   fitnessVars, constraint, function>>

NextConstraint ==
    \/ ConstraintNew
    \/ \E value \in ConstraintValues : ConstraintCall(value)

SpecConstraint == InitConstraint /\ [][NextConstraint]_vars

\* the number each numeral denotes
NumeralValue(n) ==
    CASE n = <<"0">> -> <<0, 1>>
      [] n = <<"1">> -> <<1, 1>>
      [] n = <<"2">> -> <<2, 1>>
      [] n = <<"-", "1">> -> <<-1, 1>>
      [] n = <<"1", "0">> -> <<10, 1>>
      [] n = <<"0", ".", "5">> -> <<1, 2>>

\* |x - y| of two fractions, written out
Distance(x, y) == Frac(Abs(x[1] * y[2] - y[1] * x[2]), x[2] * y[2])

\* x <= y of two fractions
AtMost(x, y) == x[1] * y[2] <= y[1] * x[2]

\* the violation the operator o is said to give at x against the bound y
ExpectedViolation(o, x, y) ==
    LET margin == LET d == Distance(x, y)
                  IN  Frac(d[1] * 10000 + d[2], d[2] * 10000)
    IN  CASE o = <<"=", "=">> -> Distance(x, y)
          [] o = <<"<", "=">> -> IF AtMost(x, y) THEN Zero ELSE Distance(x, y)
          [] o = <<">", "=">> -> IF AtMost(y, x) THEN Zero ELSE Distance(x, y)
          [] o = <<"!", "=">> -> IF x # y THEN Zero ELSE <<1, 1>>
          [] o = <<"<">> -> IF AtMost(x, y) /\ x # y THEN Zero ELSE margin
          [] o = <<">">> -> IF AtMost(y, x) /\ x # y THEN Zero ELSE margin

\* C11: a Constraint parsed from the text '<op><number>' evaluates at x against
\* the number y to |x-y| for ==, to 0 if satisfied else |x-y| for <= and >=, to
\* 0 if x != y else 1 for !=, and to 0 if satisfied else |x-y| + 0.0001 for <
\* and >; '<=0' at -1, 0, 1 gives 0, 0, 1, '<0' at 0 gives 0.0001, and no result
\* is negative.
C11_ConstraintViolation ==
    violation.called =>
        /\ \A o \in OperatorTexts : \A n \in Numerals :
              constraint = o \o n =>
                 violation.result = ExpectedViolation(o, violation.value, NumeralValue(n))
        /\ constraint = <<"<", "=", "0">> /\ violation.value = <<-1, 1>>
              => violation.result = <<0, 1>>
        /\ constraint = <<"<", "=", "0">> /\ violation.value = <<0, 1>>
              => violation.result = <<0, 1>>
        /\ constraint = <<"<", "=", "0">> /\ violation.value = <<1, 1>>
              => violation.result = <<1, 1>>
        /\ constraint = <<"<", "0">> /\ violation.value = <<0, 1>>
              => violation.result = <<1, 10000>>
        /\ violation.result[1] >= 0 /\ violation.result[2] > 0

\* a strict constraint called on its bound: the margin alone is the violation
C11_Witness ==
    /\ violation.called
    /\ constraint = <<"<", "0">>
    /\ violation.value = <<0, 1>>
    /\ violation.result = <<1, 10000>>

=============================================================================
